---- MODULE Spec2Model ----
(***************************************************************************)
(* Model of CargoTaskManager (src/components/cargo/cargo_manager.ts): the  *)
(* single currentTask slot, forced restart through kill-and-reissue, the   *)
(* wiring of a task's stdout/stderr lines into the diagnostic parser, the  *)
(* diagnostic publisher and the output channel, and the two termination    *)
(* callbacks.  Task, DiagnosticParser and DiagnosticPublisher live in      *)
(* other files of the repository; they are modelled from their contracts.  *)
(*                                                                         *)
(* Every handler of the event loop is one action.  The variable `last`     *)
(* records what the most recent handler was and which collaborator calls   *)
(* it made, in order.                                                      *)
(***************************************************************************)
EXTENDS Integers, Sequences, FiniteSets, TLC

VARIABLES
    currentTask,                  \* the slot: NoTask or the id of a task
    tasks,                        \* every Task created by runCargoWithCwd, by id
    nlines,                       \* number of lines the tasks have delivered so far
    nrequests,                    \* number of runCargo requests issued so far
    awaiting,                     \* runCargo activations suspended in `await kill()`
    published,                    \* DiagnosticPublisher's PublishedSet
    channel,                      \* content of the output channel
    statusBarShown,               \* CargoTaskStatusBarManager items are visible
    spinnerTimers,                \* number of active spinner interval timers
    probes,                       \* availability probes of check requests in flight
    diagnosticPublishingEnabled,  \* the runtime toggle
    callerArgs,                   \* content of the argument list a caller keeps
    last                          \* the handler that ran last and its calls

vars == <<currentTask, tasks, nlines, nrequests, awaiting, published, channel,
          statusBarShown, spinnerTimers, probes, diagnosticPublishingEnabled,
          callerArgs, last>>

----------------------------------------------------------------------------
(* Bounds *)

MaxRequests == 3
MaxLines == 1

----------------------------------------------------------------------------
(* Inputs *)

NoTask == 0

JsonCommands == {"build", "check", "clippy", "test", "run"}

\* verb and caller arguments of the requests that are issued
RequestKinds == { <<"build", <<"--lib">> >> }

\* lines a process may print, as sequences of characters
Lines == { <<"{", "a">>, <<"x">> }

ExitCodes == {0, 101}

StartErrors == {"ENOENT", "EACCES"}

CwdPath == "/ws"

CwdError == "no working directory"

NotAvailableMessage == "The \"cargo\" command is not available. Make sure it is installed."

----------------------------------------------------------------------------
(* Helpers *)

Entry(kind, text, code) == [kind |-> kind, text |-> text, code |-> code]

Handler(op, task, req, calls, message) ==
    [op |-> op, task |-> task, req |-> req, calls |-> calls, message |-> message,
     force |-> FALSE, line |-> <<>>, error |-> "",
     command |-> "", args |-> <<>>, probeExit |-> -1]

\* a handler of a line event also records the line it was given
LineHandler(op, task, req, calls, line) ==
    [Handler(op, task, req, calls, "") EXCEPT !.line = line]

\* the handler of a rejected execute() also records the error it was given
ErrorHandler(op, task, req, calls, message, error) ==
    [Handler(op, task, req, calls, message) EXCEPT !.error = error]

\* a handler that is an activation of runCargo also records its parameters
\* and, for a check request, the exit code of the probe that decided them
RunHandler(op, task, q, calls, message) ==
    [Handler(op, task, q.id, calls, message) EXCEPT
        !.force = q.force, !.command = q.command, !.args = q.args,
        !.probeExit = q.probeExit]

Has(calls, c) == \E i \in 1..Len(calls) : calls[i] = c

Count(calls, c) == Cardinality({i \in 1..Len(calls) : calls[i] = c})

StartsWith(line, ch) == Len(line) > 0 /\ line[1] = ch

----------------------------------------------------------------------------
(* DiagnosticParser and DiagnosticPublisher *)

\* parseLine: the file diagnostics of one structured message; a JSON line
\* <<"{", f1, ..., fn>> stands for a message with one diagnostic per file
ParseLine(line) == IF StartsWith(line, "{") THEN Tail(line) ELSE <<>>

ClearDiagnostics(pub) == <<>>

\* publishDiagnostic appends; the entry is tagged with the task it came from
PublishDiagnostic(pub, file, cwd, t) == Append(pub, [file |-> file, cwd |-> cwd, task |-> t])

RECURSIVE PublishAll(_, _, _, _)
PublishAll(pub, files, cwd, t) ==
    IF files = <<>> THEN pub
    ELSE PublishAll(PublishDiagnostic(pub, Head(files), cwd, t), Tail(files), cwd, t)

----------------------------------------------------------------------------
(* Task *)

NewTask(q, args, cwd) ==
    [id |-> q.id, req |-> q, args |-> args, cwd |-> cwd, state |-> "starting",
     interrupted |-> FALSE, ended |-> "none", exitCode |-> -1,
     callbacks |-> 0, clears |-> 0]

\* kill(): request termination; idempotent
Kill(ts, t) == [ts EXCEPT ![t].interrupted = TRUE]

Live(t) == tasks[t].state # "ended"

LiveTasks == {t \in 1..Len(tasks) : Live(t)}

----------------------------------------------------------------------------
(* CargoTaskManager *)

Init ==
    /\ currentTask = NoTask
    /\ tasks = <<>>
    /\ nlines = 0
    /\ nrequests = 0
    /\ awaiting = {}
    /\ published = <<>>
    /\ channel = <<>>
    /\ statusBarShown = FALSE
    /\ spinnerTimers = 0
    /\ probes = {}
    /\ diagnosticPublishingEnabled = TRUE
    /\ callerArgs = <<"--lib">>
    /\ last = Handler("init", NoTask, 0, <<>>, "")

\* setDiagnosticPublishingEnabled
SetDiagnosticPublishingEnabled(b) ==
    /\ diagnosticPublishingEnabled' = b
    /\ last' = Handler("setDiagnosticPublishingEnabled", NoTask, 0, <<>>, "")
    /\ UNCHANGED <<callerArgs, currentTask, tasks, nlines, nrequests, awaiting, published,
                   channel, statusBarShown, spinnerTimers, probes>>

\* stopTask
StopTaskEmptiesSlot ==
    /\ IF currentTask # NoTask
       THEN /\ tasks' = Kill(tasks, currentTask)
            /\ last' = Handler("stopTask", currentTask, 0, <<"kill">>, "")
       ELSE /\ tasks' = tasks
            /\ last' = Handler("stopTask", NoTask, 0, <<>>, "")
    /\ currentTask' = NoTask
    /\ UNCHANGED <<callerArgs, nlines, nrequests, awaiting, published, channel,
                   statusBarShown, spinnerTimers, probes, diagnosticPublishingEnabled>>

StopTask ==
    /\ IF currentTask # NoTask
       THEN /\ tasks' = Kill(tasks, currentTask)
            /\ last' = Handler("stopTask", currentTask, 0, <<"kill">>, "")
       ELSE /\ tasks' = tasks
            /\ last' = Handler("stopTask", NoTask, 0, <<>>, "")
    /\ UNCHANGED <<callerArgs, currentTask, nlines, nrequests, awaiting, published, channel,
                   statusBarShown, spinnerTimers, probes, diagnosticPublishingEnabled>>

\* CargoTaskStatusBarManager.show: the items are shown and a new interval
\* timer is stored in this.interval
StatusBarShow ==
    /\ statusBarShown' = TRUE
    /\ spinnerTimers' = spinnerTimers + 1

\* CargoTaskStatusBarManager.hide: the timer in this.interval, if any, is
\* cleared, this.interval becomes null and the items are hidden
StatusBarHide ==
    /\ statusBarShown' = FALSE
    /\ spinnerTimers' = IF statusBarShown THEN spinnerTimers - 1 ELSE spinnerTimers

\* the argument vector runCargoWithCwd builds
JsonFlagMissing(command, args) == <<command>> \o args

Arguments(command, args) ==
    <<command>> \o (IF command \in JsonCommands
                    THEN <<"--message-format", "json">> \o args
                    ELSE args)

\* the collaborator calls runCargoWithCwd makes, in order
RunCargoWithCwdCallsNoClear(show) ==
    (IF show THEN <<"channel.show">> ELSE <<>>)
        \o <<"new Task", "statusBar.show", "execute">>

RunCargoWithCwdCalls(show) ==
    <<"clearDiagnostics">>
        \o (IF show THEN <<"channel.show">> ELSE <<>>)
        \o <<"new Task", "statusBar.show", "execute">>

\* runCargoWithCwd(command, args, cwd), called for request r by handler op;
\* show is shouldShowRunningCargoTaskOutputChannel()
RunCargoWithCwd(op, q, cwd, show, pre) ==
    LET t == Len(tasks) + 1
        calls == RunCargoWithCwdCalls(show)
        task == [NewTask(q, Arguments(q.command, q.args), cwd) EXCEPT
                    !.clears = Count(calls, "clearDiagnostics")]
    IN  /\ published' = IF Has(calls, "clearDiagnostics")
                        THEN ClearDiagnostics(published) ELSE published
        /\ tasks' = Append(tasks, task)
        /\ currentTask' = t
        /\ StatusBarShow
        /\ last' = RunHandler(op, t, q, pre \o calls, "")
        /\ UNCHANGED <<channel, diagnosticPublishingEnabled>>

\* the catch block of runCargo: the working directory could not be resolved
OnCwdErrorClearing(op, q, pre) ==
    /\ last' = RunHandler(op, NoTask, q, pre \o <<"showErrorMessage">>, CwdError)
    /\ published' = ClearDiagnostics(published)
    /\ UNCHANGED <<currentTask, tasks, channel,
                   statusBarShown, spinnerTimers, diagnosticPublishingEnabled>>

OnCwdError(op, q, pre) ==
    /\ last' = RunHandler(op, NoTask, q, pre \o <<"showErrorMessage">>, CwdError)
    /\ UNCHANGED <<currentTask, tasks, published, channel,
                   statusBarShown, spinnerTimers, diagnosticPublishingEnabled>>

\* which way runCargo goes
BranchNeverDrops(force) ==
    IF force /\ currentTask # NoTask THEN "restart" ELSE "start"

BranchForceStarts(force) ==
    IF currentTask # NoTask /\ ~force THEN "drop" ELSE "start"

Branch(force) ==
    IF force /\ currentTask # NoTask THEN "restart"
    ELSE IF currentTask # NoTask THEN "drop"
    ELSE "start"

\* runCargo(command, args, force) for request q, up to its first await or
\* its return; aw is the set of suspended activations it starts from, each
\* the request together with the task whose kill it awaits
RunCargo(op, q, aw) ==
    LET b == Branch(q.force) IN
    IF b = "restart"
    THEN /\ tasks' = Kill(tasks, currentTask)
         /\ awaiting' = aw \cup {[req |-> q, victim |-> currentTask]}
         /\ last' = RunHandler(op, currentTask, q, <<"kill">>, "")
         /\ UNCHANGED <<currentTask, published, channel,
                        statusBarShown, spinnerTimers, diagnosticPublishingEnabled>>
    ELSE IF b = "drop"
    THEN /\ awaiting' = aw
         /\ last' = RunHandler(op, currentTask, q, <<>>, "")
         /\ UNCHANGED <<currentTask, tasks, published, channel,
                        statusBarShown, spinnerTimers, diagnosticPublishingEnabled>>
    ELSE /\ awaiting' = aw
         /\ \E cwdOk \in BOOLEAN :
               IF cwdOk
               THEN \E show \in BOOLEAN :
                       RunCargoWithCwd(op, q, CwdPath, show, <<"cwd">>)
               ELSE OnCwdError(op, q, <<"cwd">>)

\* a public invokeCargo...WithArgs entry point (force = TRUE), or a direct
\* runCargo call with the default force = FALSE.  The request remembers
\* whether the slot was occupied and what was published when it was issued
Invoke(kind, force) ==
    /\ nrequests < MaxRequests
    /\ nrequests' = nrequests + 1
    /\ UNCHANGED <<callerArgs, nlines, probes>>
    /\ RunCargo("runCargo",
                [id |-> nrequests + 1, command |-> kind[1], args |-> kind[2],
                 force |-> force, busy |-> (currentTask # NoTask),
                 pubBefore |-> published, probeExit |-> -1, kept |-> FALSE],
                awaiting)

\* the arguments of a suspended activation are an array reference: when the
\* array is the list the caller keeps, its content is read when it is used
Deref(q) == IF q.kept THEN [q EXCEPT !.args = callerArgs] ELSE q

\* `await this.currentTask.kill()` completes: runCargo is re-issued
KillCompleted(a) ==
    /\ a \in awaiting
    /\ UNCHANGED <<callerArgs, nlines, nrequests, probes>>
    /\ RunCargo("reissue", Deref(a.req), awaiting \ {a})

----------------------------------------------------------------------------
(* Check requests: the availability probe and the run it decides *)

\* caller arguments of the check requests that are issued
CheckArgs == { <<"--lib">> }

\* invokeCargoCheckWithArgs(args) up to the await of the probe:
\* checkCargoCheckAvailability creates a Task of its own for `check --help`,
\* sets no callback on it and executes it.  args is an array reference: kept
\* tells whether it is the list the caller keeps (callerArgs) or an array
\* made for this call alone
InvokeCargoCheckWithArgsClearing(args, kept) ==
    /\ nrequests < MaxRequests
    /\ nrequests' = nrequests + 1
    /\ probes' = probes \cup {[id |-> nrequests + 1, args |-> args, kept |-> kept]}
    /\ published' = ClearDiagnostics(published)
    /\ last' = Handler("invokeCargoCheck", NoTask, nrequests + 1,
                       <<"clearDiagnostics", "new Task", "execute">>, "")
    /\ UNCHANGED <<callerArgs, currentTask, tasks, nlines, awaiting, channel,
                   statusBarShown, spinnerTimers, diagnosticPublishingEnabled>>

InvokeCargoCheckWithArgs(args, kept) ==
    /\ nrequests < MaxRequests
    /\ nrequests' = nrequests + 1
    /\ probes' = probes \cup {[id |-> nrequests + 1, args |-> args, kept |-> kept]}
    /\ last' = Handler("invokeCargoCheck", NoTask, nrequests + 1,
                       <<"new Task", "execute">>, "")
    /\ UNCHANGED <<callerArgs, currentTask, tasks, nlines, awaiting, published, channel,
                   statusBarShown, spinnerTimers, diagnosticPublishingEnabled>>

\* checkCargoCheckAvailability: exitCode === 0
IsAvailable(exitCode) == exitCode = 0

\* the verb and the arguments the continuation of the probe passes to runCargo
CheckCommandIgnoringProbe(isAvailable, args) == <<"check", args>>

CheckCommand(isAvailable, args) ==
    IF isAvailable THEN <<"check", args>>
    ELSE <<"rustc", args \o <<"--", "-Zno-trans">> >>

\* the probe exits: the continuation of invokeCargoCheckWithArgs chooses the
\* form and calls runCargo(command, args, true); args.push changes the array
\* it was given in place
ProbeExited(p, exitCode) ==
    /\ p \in probes
    /\ probes' = probes \ {p}
    /\ UNCHANGED <<nlines, nrequests>>
    /\ LET args == IF p.kept THEN callerArgs ELSE p.args
           c == CheckCommand(IsAvailable(exitCode), args)
       IN  /\ callerArgs' = IF p.kept THEN c[2] ELSE callerArgs
           /\ RunCargo("probeExited",
                       [id |-> p.id, command |-> c[1], args |-> c[2],
                        force |-> TRUE, busy |-> (currentTask # NoTask),
                        pubBefore |-> published, probeExit |-> exitCode,
                        kept |-> p.kept],
                       awaiting)

\* the probe cannot be started: the promise of checkCargoCheckAvailability is
\* rejected and invokeCargoCheckWithArgs has no rejection handler, so its
\* continuation is skipped
ProbeFailed(p, error) ==
    /\ p \in probes
    /\ probes' = probes \ {p}
    /\ last' = ErrorHandler("probeFailed", NoTask, p.id, <<>>, "", error)
    /\ UNCHANGED <<callerArgs, currentTask, tasks, nlines, nrequests, awaiting, published,
                   channel, statusBarShown, spinnerTimers,
                   diagnosticPublishingEnabled>>

----------------------------------------------------------------------------
(* Callbacks wired to the slot task by runCargoWithCwd *)

\* setStarted callback
OnStarted(t) ==
    /\ channel' = <<Entry("Started cargo", tasks[t].args, 0)>>
    /\ UNCHANGED <<currentTask, published, statusBarShown, spinnerTimers>>

\* setLineReceivedInStdout callback: what it does with a line
StdoutRouteAlwaysAppends(line) == "append"

StdoutRoute(line) == IF StartsWith(line, "{") THEN "parse" ELSE "append"

OnLineReceivedInStdout(t, line) ==
    LET fileDiagnostics == ParseLine(line)
        n == IF diagnosticPublishingEnabled THEN Len(fileDiagnostics) ELSE 0
        r == tasks[t].id
    IN  IF StdoutRoute(line) = "parse"
        THEN /\ published' = IF diagnosticPublishingEnabled
                             THEN PublishAll(published, fileDiagnostics, tasks[t].cwd, t)
                             ELSE published
             /\ last' = LineHandler("stdout", t, r,
                          <<"parseLine">> \o [i \in 1..n |-> "publishDiagnostic"], line)
             /\ UNCHANGED channel
        ELSE /\ channel' = Append(channel, Entry("line", line, 0))
             /\ last' = LineHandler("stdout", t, r, <<"channel.append">>, line)
             /\ UNCHANGED published

\* setLineReceivedInStderr callback
OnLineReceivedInStderr(t, line) ==
    /\ channel' = Append(channel, Entry("line", line, 0))
    /\ last' = LineHandler("stderr", t, tasks[t].id, <<"channel.append">>, line)
    /\ UNCHANGED published

\* onGracefullyEnded(exitCode)
OnGracefullyEndedKeepsSlot(t, exitCode) ==
    /\ StatusBarHide
    /\ currentTask' = currentTask
    /\ channel' = channel \o <<Entry("Completed with code", <<>>, exitCode),
                               Entry("It took approximately", <<>>, 0)>>
    /\ last' = Handler("exited", t, tasks[t].id,
                       <<"statusBar.hide", "channel.append", "channel.append">>, "")

OnGracefullyEnded(t, exitCode) ==
    /\ StatusBarHide
    /\ currentTask' = NoTask
    /\ channel' = channel \o <<Entry("Completed with code", <<>>, exitCode),
                               Entry("It took approximately", <<>>, 0)>>
    /\ last' = Handler("exited", t, tasks[t].id,
                       <<"statusBar.hide", "channel.append", "channel.append">>, "")

\* onUnexpectedlyEnded(error); error = "" stands for no error
OnUnexpectedlyEndedAnyError(t, error) ==
    /\ StatusBarHide
    /\ currentTask' = NoTask
    /\ last' = IF error = ""
               THEN ErrorHandler("killed", t, tasks[t].id, <<"statusBar.hide">>, "", error)
               ELSE ErrorHandler("failed", t, tasks[t].id,
                                 <<"statusBar.hide", "showInformationMessage">>,
                                 NotAvailableMessage, error)
    /\ UNCHANGED channel

OnUnexpectedlyEnded(t, error) ==
    /\ StatusBarHide
    /\ currentTask' = NoTask
    /\ last' = IF error = "" \/ error # "ENOENT"
               THEN ErrorHandler(IF error = "" THEN "killed" ELSE "failed",
                                 t, tasks[t].id, <<"statusBar.hide">>, "", error)
               ELSE ErrorHandler("failed", t, tasks[t].id,
                                 <<"statusBar.hide", "showInformationMessage">>,
                                 NotAvailableMessage, error)
    /\ UNCHANGED channel

----------------------------------------------------------------------------
(* Events of a task: the process becomes live, prints, and terminates with  *)
(* exactly one of an exit code, a start failure or an interruption         *)

TaskStarted(t) ==
    /\ t \in LiveTasks
    /\ tasks[t].state = "starting"
    /\ tasks' = [tasks EXCEPT ![t].state = "running"]
    /\ last' = Handler("started", t, tasks[t].id,
                       <<"channel.clear", "channel.append">>, "")
    /\ OnStarted(t)
    /\ UNCHANGED <<callerArgs, nlines, nrequests, awaiting, probes, diagnosticPublishingEnabled>>

TaskStdout(t, line) ==
    /\ t \in LiveTasks
    /\ tasks[t].state = "running"
    /\ nlines < MaxLines
    /\ nlines' = nlines + 1
    /\ OnLineReceivedInStdout(t, line)
    /\ UNCHANGED <<callerArgs, currentTask, tasks, nrequests, awaiting, probes,
                   statusBarShown, spinnerTimers, diagnosticPublishingEnabled>>

TaskStderr(t, line) ==
    /\ t \in LiveTasks
    /\ tasks[t].state = "running"
    /\ nlines < MaxLines
    /\ nlines' = nlines + 1
    /\ OnLineReceivedInStderr(t, line)
    /\ UNCHANGED <<callerArgs, currentTask, tasks, nrequests, awaiting, probes,
                   statusBarShown, spinnerTimers, diagnosticPublishingEnabled>>

\* the terminal event of task t: its completion callback fires and the
\* reference to the task is dropped; what remains is the record of how it ended
Ended(t, how, exitCode) ==
    [tasks EXCEPT ![t] = [id |-> tasks[t].id, state |-> "ended", ended |-> how,
                          exitCode |-> exitCode,
                          interrupted |-> tasks[t].interrupted,
                          callbacks |-> tasks[t].callbacks + 1,
                          clears |-> tasks[t].clears]]

TaskExited(t, exitCode) ==
    /\ t \in LiveTasks
    /\ tasks[t].state = "running"
    /\ ~tasks[t].interrupted
    /\ tasks' = Ended(t, "exit", exitCode)
    /\ OnGracefullyEnded(t, exitCode)
    /\ UNCHANGED <<callerArgs, nlines, nrequests, awaiting, published, probes,
                   diagnosticPublishingEnabled>>

TaskKilled(t) ==
    /\ t \in LiveTasks
    /\ tasks[t].state = "running"
    /\ tasks[t].interrupted
    /\ tasks' = Ended(t, "kill", -1)
    /\ OnUnexpectedlyEnded(t, "")
    /\ UNCHANGED <<callerArgs, nlines, nrequests, awaiting, published, probes,
                   diagnosticPublishingEnabled>>

TaskFailed(t, error) ==
    /\ t \in LiveTasks
    /\ tasks[t].state = "starting"
    /\ tasks' = Ended(t, "fail", -1)
    /\ OnUnexpectedlyEnded(t, error)
    /\ UNCHANGED <<callerArgs, nlines, nrequests, awaiting, published, probes,
                   diagnosticPublishingEnabled>>

----------------------------------------------------------------------------

Next ==
    \/ \E kind \in RequestKinds, force \in BOOLEAN : Invoke(kind, force)
    \/ \E a \in awaiting : KillCompleted(a)
    \/ StopTask
    \/ \E b \in BOOLEAN : SetDiagnosticPublishingEnabled(b)
    \/ \E t \in LiveTasks : TaskStarted(t)
    \/ \E t \in LiveTasks, line \in Lines : TaskStdout(t, line)
    \/ \E t \in LiveTasks, line \in Lines : TaskStderr(t, line)
    \/ \E t \in LiveTasks, exitCode \in ExitCodes : TaskExited(t, exitCode)
    \/ \E t \in LiveTasks : TaskKilled(t)
    \/ \E t \in LiveTasks, error \in StartErrors : TaskFailed(t, error)

Spec == Init /\ [][Next]_vars

\* check requests next to forced requests of the public entry points:
\* the probe, the run it decides, and the life of the slot tasks, which
\* print structured messages
CheckNext ==
    \/ \E args \in CheckArgs : InvokeCargoCheckWithArgs(args, FALSE)
    \/ \E p \in probes, exitCode \in ExitCodes : ProbeExited(p, exitCode)
    \/ \E p \in probes, error \in StartErrors : ProbeFailed(p, error)
    \/ \E kind \in RequestKinds : Invoke(kind, TRUE)
    \/ \E a \in awaiting : KillCompleted(a)
    \/ StopTask
    \/ \E t \in LiveTasks : TaskStarted(t)
    \/ \E t \in LiveTasks, line \in {l \in Lines : StartsWith(l, "{")} : TaskStdout(t, line)
    \/ \E t \in LiveTasks, exitCode \in ExitCodes : TaskExited(t, exitCode)
    \/ \E t \in LiveTasks : TaskKilled(t)

CheckSpec == Init /\ [][CheckNext]_vars

\* requests of every verb with argument lists of every shape, each issued
\* while the orchestrator is idle, and the life of the tasks they start
ArgsVerbs == JsonCommands \cup {"doc", "update", "clean", "bench", "rustc"}

ArgsLists == { <<>>, <<"--lib">>, <<"--release", "--lib">>, <<"--lib", "--release">> }

ArgsNext ==
    \/ /\ currentTask = NoTask
       /\ \E command \in ArgsVerbs, args \in ArgsLists : Invoke(<<command, args>>, TRUE)
    \/ \E t \in LiveTasks : TaskStarted(t)
    \/ \E t \in LiveTasks, exitCode \in ExitCodes : TaskExited(t, exitCode)

ArgsSpec == Init /\ [][ArgsNext]_vars

\* no kill has been requested so far, by stopTask or by a forced run
NoKillRequested == \A t \in 1..Len(tasks) : ~tasks[t].interrupted

\* stopTask at any time, requests only as long as no kill has been requested,
\* and the life of the slot tasks
StopNext ==
    \/ /\ NoKillRequested
       /\ \E kind \in RequestKinds : Invoke(kind, TRUE)
    \/ \E a \in awaiting : KillCompleted(a)
    \/ StopTask
    \/ \E t \in LiveTasks : TaskStarted(t)
    \/ \E t \in LiveTasks, line \in Lines : TaskStdout(t, line)
    \/ \E t \in LiveTasks, exitCode \in ExitCodes : TaskExited(t, exitCode)
    \/ \E t \in LiveTasks : TaskKilled(t)
    \/ \E t \in LiveTasks, error \in StartErrors : TaskFailed(t, error)

\* a running process whose termination was requested does terminate
StopSpec ==
    Init /\ [][StopNext]_vars /\ WF_vars(\E t \in LiveTasks : TaskKilled(t))

\* forced requests of the public entry points and stopTask at any time, and
\* the life of the slot tasks
ForcedNext ==
    \/ \E kind \in RequestKinds : Invoke(kind, TRUE)
    \/ \E a \in awaiting : KillCompleted(a)
    \/ StopTask
    \/ \E t \in LiveTasks : TaskStarted(t)
    \/ \E t \in LiveTasks, exitCode \in ExitCodes : TaskExited(t, exitCode)
    \/ \E t \in LiveTasks : TaskKilled(t)
    \/ \E t \in LiveTasks, error \in StartErrors : TaskFailed(t, error)

ForcedSpec == Init /\ [][ForcedNext]_vars

\* check requests of a caller that passes the list it keeps to each of them,
\* and the life of the slot tasks
KeptArgsNext ==
    \/ InvokeCargoCheckWithArgs(callerArgs, TRUE)
    \/ \E p \in probes, exitCode \in ExitCodes : ProbeExited(p, exitCode)
    \/ \E a \in awaiting : KillCompleted(a)
    \/ \E t \in LiveTasks : TaskStarted(t)
    \/ \E t \in LiveTasks, exitCode \in ExitCodes : TaskExited(t, exitCode)
    \/ \E t \in LiveTasks : TaskKilled(t)

KeptArgsSpec == Init /\ [][KeptArgsNext]_vars

----------------------------------------------------------------------------
(* Properties *)

TaskIds == 1..Len(tasks)

\* the step is an activation of runCargo (a request or a re-issue)
IsRunStep == last' # last /\ last'.op \in {"runCargo", "reissue"}

CreatesTask == Len(tasks') > Len(tasks)

\* C1: at most one task created by runCargoWithCwd is live at any time, the
\* live task is the one in the slot, and a task is only ever created while
\* the slot is empty
C1_AtMostOneLive ==
    [][ /\ Cardinality(LiveTasks') <= 1
        /\ LiveTasks' \subseteq {currentTask'}
        /\ CreatesTask => currentTask = NoTask /\ LiveTasks = {} ]_vars

\* a third task is live in the slot after two earlier ones have terminated,
\* one of them interrupted
C1_Witness ==
    /\ Len(tasks) = 3
    /\ LiveTasks = {3}
    /\ currentTask = 3
    /\ \E t \in {1, 2} : tasks[t].ended = "kill"

\* C2: runCargo with force = false while the slot is occupied does nothing:
\* no kill, no clearDiagnostics, no cwd resolution, no new task, same slot
C2_NonForcedIsNoOp ==
    [][ (IsRunStep /\ last'.op = "runCargo" /\ ~last'.force /\ currentTask # NoTask)
        => /\ last'.calls = <<>>
           /\ UNCHANGED <<currentTask, tasks, awaiting, published, channel,
                          statusBarShown, diagnosticPublishingEnabled>> ]_vars

\* a non-forced request has just been dropped while a task with published
\* diagnostics is running
C2_Witness ==
    /\ last.op = "runCargo"
    /\ ~last.force
    /\ last.calls = <<>>
    /\ currentTask # NoTask
    /\ tasks[currentTask].state = "running"
    /\ published # <<>>

TasksOf(r) == {t \in TaskIds : tasks[t].id = r}

IndexOf(calls, c) == CHOOSE i \in 1..Len(calls) : calls[i] = c

\* the last handler was a re-issue of runCargo that found the slot empty
ReissueFoundSlotEmpty == last.op = "reissue" /\ Has(last.calls, "cwd")

\* C3 as stated: after run(A) and a forced run(B) before A terminates, A gets
\* exactly one termination callback and it is the kill-induced one, B's task
\* is created exactly once, and only after A's callback has emptied the slot
C3_Original ==
    /\ \A t \in TaskIds : tasks[t].callbacks <= 1
    /\ \A a \in awaiting :
          tasks[a.victim].state = "ended" => tasks[a.victim].ended = "kill"
    /\ \A t \in TaskIds : \A u \in 1..(t - 1) : tasks[u].callbacks = 1
    /\ ReissueFoundSlotEmpty => Cardinality(TasksOf(last.req)) = 1

\* C3 (amended): A gets exactly one termination callback, which is the
\* kill-induced one unless A's process failed to start; B's task is created
\* at most once, exactly once when the working directory resolves at the
\* re-issue that finds the slot empty, and only after A's callback has
\* emptied the slot
C3_ForcedRestartOrdering ==
    /\ \A t \in TaskIds :
          /\ tasks[t].callbacks <= 1
          /\ tasks[t].state = "ended" <=> tasks[t].callbacks = 1
    /\ \A a \in awaiting :
          /\ tasks[a.victim].interrupted
          /\ tasks[a.victim].state = "ended" => tasks[a.victim].ended \in {"kill", "fail"}
    /\ \A t \in TaskIds : \A u \in 1..(t - 1) : tasks[u].callbacks = 1
    /\ \A r \in 1..nrequests : Cardinality(TasksOf(r)) <= 1
    /\ ReissueFoundSlotEmpty =>
          IF Has(last.calls, "showErrorMessage")
          THEN TasksOf(last.req) = {}
          ELSE TasksOf(last.req) = {currentTask}

\* run(A), forced run(B), A interrupted, B's task created by the re-issue
C3_Witness ==
    /\ nrequests = 2
    /\ Len(tasks) = 2
    /\ tasks[1].ended = "kill"
    /\ tasks[1].callbacks = 1
    /\ last.op = "reissue"
    /\ last.req = 2
    /\ TasksOf(2) = {2}
    /\ currentTask = 2

\* C4: once kill has been requested for a task, none of its later stdout
\* lines is passed to the parser or published
C4_NoOutputAfterKill ==
    (last.op = "stdout" /\ tasks[last.task].interrupted)
        => ~Has(last.calls, "parseLine") /\ ~Has(last.calls, "publishDiagnostic")

\* C5: every published diagnostic comes from the most recently started task
C5_PublishedFromNewestTask ==
    \A i \in 1..Len(published) : published[i].task = Len(tasks)

\* a later task runs after diagnostics of an earlier one had been published
C5_Witness ==
    /\ Len(tasks) >= 2
    /\ tasks[Len(tasks)].state = "running"
    /\ tasks[Len(tasks)].req.pubBefore # <<>>
    /\ \A i \in 1..Len(tasks[Len(tasks)].req.pubBefore) :
          tasks[Len(tasks)].req.pubBefore[i].task < Len(tasks)

\* C6: the PublishedSet is empty when a run's started event fires and until
\* the run publishes its first diagnostic; clearDiagnostics is called exactly
\* once for each run, before the task exists and so before any publish
C6_ClearBeforePublish ==
    /\ last.op = "started" => published = <<>>
    /\ (currentTask # NoTask /\ \A i \in 1..Len(published) : published[i].task # currentTask)
          => published = <<>>
    /\ \A t \in TaskIds : tasks[t].clears = 1
    /\ Has(last.calls, "new Task") =>
          /\ Count(last.calls, "clearDiagnostics") = 1
          /\ IndexOf(last.calls, "clearDiagnostics") < IndexOf(last.calls, "new Task")
    /\ Has(last.calls, "publishDiagnostic") =>
          /\ last.op = "stdout"
          /\ tasks[last.task].clears = 1

\* a run has just started after an earlier run had published diagnostics
C6_Witness ==
    /\ last.op = "started"
    /\ tasks[last.task].req.pubBefore # <<>>
    /\ published = <<>>

\* C7 (safety part): among forced requests issued while a task was running,
\* and with every terminated task having been started and then interrupted,
\* the task of a newer request is never killed on behalf of an older one
C7_NewestNeverKilledForOlder ==
    (/\ last.op \in {"runCargo", "reissue"}
     /\ last.calls = <<"kill">>
     /\ \A t \in TaskIds : tasks[t].state = "ended" => tasks[t].ended = "kill")
        => \A a \in awaiting :
              (a.req.id = last.req /\ a.req.busy /\ a.req.force
                  /\ Live(a.victim)
                  /\ tasks[a.victim].req.busy /\ tasks[a.victim].req.force)
                 => tasks[a.victim].id <= a.req.id

\* C8: when runCargo finds the slot empty and cwd() throws, the error message
\* is shown, no task is created, the slot stays empty, the busy indicator is
\* not turned on and the PublishedSet is unchanged
C8_CwdFailure ==
    [][ (IsRunStep /\ Has(last'.calls, "cwd") /\ ~Has(last'.calls, "new Task"))
        => /\ last'.calls = <<"cwd", "showErrorMessage">>
           /\ last'.message = CwdError
           /\ currentTask = NoTask
           /\ currentTask' = NoTask
           /\ tasks' = tasks
           /\ ~statusBarShown'
           /\ published' = published ]_vars

\* cwd() has just thrown while diagnostics of an earlier run are published
C8_Witness ==
    /\ Has(last.calls, "showErrorMessage")
    /\ last.message = CwdError
    /\ published # <<>>
    /\ currentTask = NoTask

\* C9: after the failed(error) callback of a task the PublishedSet is what it
\* was before the run request of that task, and the slot is empty
C9_StartFailureKeepsDiagnostics ==
    [][ \A t \in LiveTasks :
          (tasks'[t].state = "ended" /\ tasks'[t].ended = "fail")
             => /\ published' = tasks[t].req.pubBefore
                /\ currentTask' = NoTask ]_vars

\* C10: when a task that was not killed exits with any code, the slot is
\* emptied, the busy indicator is turned off, the completion summary with
\* that exit code is appended to the channel and no message is shown
C10_GracefulEnd ==
    last.op = "exited"
        => /\ currentTask = NoTask
           /\ ~statusBarShown
           /\ tasks[last.task].exitCode \in ExitCodes
           /\ Len(channel) >= 2
           /\ channel[Len(channel) - 1] =
                 Entry("Completed with code", <<>>, tasks[last.task].exitCode)
           /\ channel[Len(channel)].kind = "It took approximately"
           /\ ~Has(last.calls, "showErrorMessage")
           /\ ~Has(last.calls, "showInformationMessage")
           /\ last.message = ""

\* a task has just exited with a non-zero code
C10_Witness ==
    /\ last.op = "exited"
    /\ tasks[last.task].exitCode = 101
    /\ ~tasks[last.task].interrupted

\* C11: on the failure path the slot is emptied and the busy indicator is
\* turned off in every case; the not-available information message is shown
\* exactly when an error is present and its message is ENOENT; an interrupted
\* end and any other start failure show no message; nothing is appended to
\* the channel
C11_FailurePath ==
    [][ \A t \in LiveTasks :
          (tasks'[t].state = "ended" /\ tasks'[t].ended \in {"fail", "kill"})
             => /\ currentTask' = NoTask
                /\ ~statusBarShown'
                /\ last'.task = t
                /\ Has(last'.calls, "statusBar.hide")
                /\ Has(last'.calls, "showInformationMessage") <=> last'.error = "ENOENT"
                /\ last'.message = (IF last'.error = "ENOENT" THEN NotAvailableMessage ELSE "")
                /\ tasks'[t].ended = "kill" <=> last'.error = ""
                /\ ~Has(last'.calls, "showErrorMessage")
                /\ ~Has(last'.calls, "channel.append")
                /\ channel' = channel ]_vars

\* a start failure other than ENOENT has just been swallowed
C11_Witness ==
    /\ last.op = "failed"
    /\ last.error = "EACCES"
    /\ last.calls = <<"statusBar.hide">>
    /\ currentTask = NoTask

\* C12: whenever the first process spawned for a command request (the slot
\* task, or the availability probe of a check request) fails to start
\* because the executable does not exist, the not-installed message is shown
\* by the handler of that failure, and a failed slot task leaves the slot empty
C12_NotInstalledReported ==
    (last.op \in {"failed", "probeFailed"} /\ last.error = "ENOENT")
        => /\ Has(last.calls, "showInformationMessage")
           /\ last.message = NotAvailableMessage
           /\ last.op = "failed" => currentTask = NoTask

\* C13: a stdout line beginning with '{' is passed to the parser, is not
\* appended to the channel, and its diagnostics are published exactly when
\* the toggle is enabled at that moment; every other stdout line and every
\* stderr line is appended verbatim to the channel and is not parsed
C13_LineRouting ==
    [][ nlines' # nlines =>
          /\ last'.op \in {"stdout", "stderr"}
          /\ IF last'.op = "stdout" /\ StartsWith(last'.line, "{")
             THEN /\ Count(last'.calls, "parseLine") = 1
                  /\ ~Has(last'.calls, "channel.append")
                  /\ channel' = channel
                  /\ IF diagnosticPublishingEnabled
                     THEN /\ Count(last'.calls, "publishDiagnostic")
                                = Len(ParseLine(last'.line))
                          /\ Len(published')
                                = Len(published) + Len(ParseLine(last'.line))
                     ELSE /\ ~Has(last'.calls, "publishDiagnostic")
                          /\ published' = published
             ELSE /\ last'.calls = <<"channel.append">>
                  /\ channel' = Append(channel, Entry("line", last'.line, 0))
                  /\ published' = published ]_vars

\* a structured stdout line has just been parsed while publishing is disabled
C13_Witness ==
    /\ last.op = "stdout"
    /\ StartsWith(last.line, "{")
    /\ ~diagnosticPublishingEnabled
    /\ last.calls = <<"parseLine">>
    /\ published = <<>>

\* C14: the argument vector of a slot task is the verb, then
\* '--message-format','json' exactly when the verb is one of build, check,
\* clippy, test, run, then the caller's args in their original order
C14_ArgumentVector ==
    \A t \in LiveTasks :
       LET command == tasks[t].req.command
           args == tasks[t].req.args
       IN  /\ tasks[t].args[1] = command
           /\ IF command \in {"build", "check", "clippy", "test", "run"}
              THEN tasks[t].args = <<command, "--message-format", "json">> \o args
              ELSE tasks[t].args = <<command>> \o args
           /\ last.op = "started" /\ last.task = t
                 => channel = <<Entry("Started cargo", tasks[t].args, 0)>>

\* a clippy task with two caller arguments has just started
C14_Witness ==
    /\ last.op = "started"
    /\ currentTask # NoTask
    /\ tasks[currentTask].req.command = "clippy"
    /\ tasks[currentTask].req.args = <<"--release", "--lib">>
    /\ tasks[currentTask].args
          = <<"clippy", "--message-format", "json", "--release", "--lib">>

\* C15 as stated: the check verb with caller args ["--lib"], when the probe
\* reports that check is supported, runs with the JSON flags before the verb
C15_Original ==
    \A t \in LiveTasks :
       (tasks[t].req.command = "check" /\ tasks[t].req.args = <<"--lib">>)
          => tasks[t].args = <<"--message-format", "json", "check", "--lib">>

\* C15 (amended): the check verb with caller args ["--lib"], when the probe
\* reports that check is supported, runs with the verb first and the JSON
\* flags between the verb and the caller args
C15_CheckVector ==
    \A t \in LiveTasks :
       (tasks[t].req.command = "check" /\ tasks[t].req.args = <<"--lib">>)
          => tasks[t].args = <<"check", "--message-format", "json", "--lib">>

\* the continuation of a successful probe has just created the check task
C15_Witness ==
    /\ last.op = "probeExited"
    /\ Has(last.calls, "new Task")
    /\ currentTask = last.task
    /\ tasks[currentTask].req.command = "check"
    /\ tasks[currentTask].req.args = <<"--lib">>
    /\ Len(tasks[currentTask].args) = 4

RunsInProgress == {a.req : a \in awaiting} \cup {tasks[t].req : t \in LiveTasks}

\* C17: the forced run of a check request is issued by the handler of the
\* probe's exit and not before; exit code 0 yields verb 'check' with the
\* caller's args, any other exit code yields verb 'rustc' with the caller's
\* args followed by '--','-Zno-trans'
C17_ProbeGatesForm ==
    [][ /\ \A p \in probes' : \A q \in RunsInProgress' : q.id # p.id
        /\ (last' # last /\ last'.op = "probeExited") =>
              \E p \in probes :
                 /\ probes' = probes \ {p}
                 /\ last'.req = p.id
                 /\ last'.force
                 /\ last'.probeExit \in ExitCodes
                 /\ IF last'.probeExit = 0
                    THEN /\ last'.command = "check"
                         /\ last'.args = p.args
                    ELSE /\ last'.command = "rustc"
                         /\ last'.args = p.args \o <<"--", "-Zno-trans">>
                 /\ \A q \in RunsInProgress' \ RunsInProgress :
                       /\ q.id = p.id
                       /\ q.command = last'.command
                       /\ q.args = last'.args
        /\ \A q \in RunsInProgress' :
              q.command \in {"check", "rustc"} => q.probeExit \in ExitCodes ]_vars

\* a probe has exited with a non-zero code and its continuation has started
\* the rustc form
C17_Witness ==
    /\ last.op = "probeExited"
    /\ last.probeExit = 101
    /\ Has(last.calls, "new Task")
    /\ tasks[currentTask].args = <<"rustc", "--lib", "--", "-Zno-trans">>

\* C18: starting a probe and a probe that cannot be started leave the slot,
\* the tasks, the diagnostics, the channel and the busy indicator alone; a
\* probe in flight goes away only by its own termination, never by stopTask
\* or by an activation of runCargo; and a run request does the same with a
\* probe in flight as without: it starts a task when the slot is empty and
\* kills the slot task when it is occupied
C18_ProbeOutsideSlot ==
    [][ /\ (last' # last /\ last'.op \in {"invokeCargoCheck", "probeFailed"}) =>
              /\ probes' # probes
              /\ ~Has(last'.calls, "clearDiagnostics")
              /\ ~Has(last'.calls, "publishDiagnostic")
              /\ ~Has(last'.calls, "statusBar.show")
              /\ ~Has(last'.calls, "statusBar.hide")
              /\ UNCHANGED <<currentTask, tasks, awaiting, published, channel,
                             statusBarShown, spinnerTimers>>
        /\ probes' # probes =>
              /\ last' # last
              /\ last'.op \in {"invokeCargoCheck", "probeExited", "probeFailed"}
        /\ (probes # {} /\ last' # last /\ last'.op = "stopTask") =>
              /\ probes' = probes
              /\ last'.task = currentTask
        /\ (probes # {} /\ last' # last /\ last'.op \in {"runCargo", "reissue"}) =>
              /\ probes' = probes
              /\ IF currentTask = NoTask
                 THEN /\ Has(last'.calls, "cwd")
                      /\ Has(last'.calls, "new Task") \/ Has(last'.calls, "showErrorMessage")
                      /\ Has(last'.calls, "new Task") => currentTask' = Len(tasks')
                 ELSE /\ last'.calls = <<"kill">>
                      /\ tasks'[currentTask].interrupted ]_vars

\* a check request has just started its probe while a slot task is running
\* and diagnostics are published; slot, diagnostics and busy indicator stand
C18_Witness ==
    /\ last.op = "invokeCargoCheck"
    /\ probes # {}
    /\ currentTask # NoTask
    /\ tasks[currentTask].state = "running"
    /\ published # <<>>
    /\ statusBarShown

\* C19: the termination callback of a task fires only while the slot holds
\* that very task, and the slot is emptied only by the termination callback
\* of the task it holds
C19_OnlyOwnCallbackEmptiesSlot ==
    [][ /\ \A t \in LiveTasks :
              tasks'[t].state = "ended"
                 => /\ currentTask = t
                    /\ currentTask' = NoTask
                    /\ last'.task = t
                    /\ last'.op \in {"exited", "killed", "failed"}
        /\ (currentTask # NoTask /\ currentTask' # currentTask)
              => /\ currentTask' = NoTask
                 /\ tasks[currentTask].state # "ended"
                 /\ tasks'[currentTask].state = "ended" ]_vars

\* the second task has just been interrupted while a forced request is
\* still suspended, after the first task was interrupted too
C19_Witness ==
    /\ Len(tasks) >= 2
    /\ last.op = "killed"
    /\ last.task = 2
    /\ tasks[1].ended = "kill"
    /\ awaiting # {}
    /\ currentTask = NoTask

\* C20: between handlers the busy indicator is shown exactly when the slot
\* is occupied; show is only called while it is hidden and hide only while
\* it is shown, each at most once in a handler, so at most one spinner
\* interval timer is active
C20_BusyIndicator ==
    [][ /\ statusBarShown' <=> currentTask' # NoTask
        /\ spinnerTimers' = (IF statusBarShown' THEN 1 ELSE 0)
        /\ last' # last =>
              /\ Count(last'.calls, "statusBar.show")
                    + Count(last'.calls, "statusBar.hide") <= 1
              /\ Has(last'.calls, "statusBar.show") => ~statusBarShown /\ statusBarShown'
              /\ Has(last'.calls, "statusBar.hide") => statusBarShown /\ ~statusBarShown'
              /\ statusBarShown' # statusBarShown =>
                    \/ Has(last'.calls, "statusBar.show")
                    \/ Has(last'.calls, "statusBar.hide") ]_vars

\* the busy indicator has been shown for the second time, after the first
\* task ended and hid it
C20_Witness ==
    /\ Len(tasks) = 2
    /\ tasks[1].state = "ended"
    /\ Has(last.calls, "statusBar.show")
    /\ currentTask = 2
    /\ statusBarShown
    /\ spinnerTimers = 1

\* C21: a forced request issued while a task is running requests kill on
\* that task and suspends without resolving the working directory; the
\* working directory is resolved only by a re-issue that finds the slot empty
\* after the task it awaited has terminated; and when that resolution fails,
\* no task is created, no task is live and the slot is empty
C21_ForcedRestartCwdFailure ==
    [][ /\ (/\ IsRunStep
            /\ last'.op = "runCargo"
            /\ last'.force
            /\ currentTask # NoTask
            /\ tasks[currentTask].state = "running") =>
              /\ last'.calls = <<"kill">>
              /\ tasks'[currentTask].interrupted
              /\ \E a \in awaiting' \ awaiting :
                    a.req.id = last'.req /\ a.victim = currentTask
              /\ currentTask' = currentTask
              /\ Len(tasks') = Len(tasks)
              /\ published' = published
        /\ (IsRunStep /\ last'.op = "reissue" /\ Has(last'.calls, "cwd")) =>
              /\ currentTask = NoTask
              /\ \E a \in awaiting \ awaiting' :
                    /\ a.req.id = last'.req
                    /\ tasks[a.victim].interrupted
                    /\ tasks[a.victim].state = "ended"
                    /\ tasks[a.victim].ended \in {"kill", "fail"}
        /\ (IsRunStep /\ last'.op = "reissue" /\ Has(last'.calls, "showErrorMessage")) =>
              /\ Has(last'.calls, "cwd")
              /\ ~Has(last'.calls, "new Task")
              /\ tasks' = tasks
              /\ \A t \in 1..Len(tasks') :
                    tasks'[t].state = "ended" /\ tasks'[t].id # last'.req
              /\ currentTask' = NoTask
              /\ ~statusBarShown' ]_vars

\* the task of the first request was running when the second, forced request
\* killed it; the re-issue has just failed to resolve the working directory
C21_Witness ==
    /\ last.op = "reissue"
    /\ last.req = 2
    /\ last.calls = <<"cwd", "showErrorMessage">>
    /\ Len(tasks) = 1
    /\ tasks[1].ended = "kill"
    /\ currentTask = NoTask
    /\ awaiting = {}

\* C22: check requests leave the caller's argument list as it was, and every
\* run of the rustc form decided for that list has the same argument vector:
\* the verb, the list, and '--','-Zno-trans' once
C22_CallerArgsUnchanged ==
    /\ callerArgs = <<"--lib">>
    /\ \A t \in LiveTasks :
          (tasks[t].req.kept /\ tasks[t].req.command = "rustc")
             => tasks[t].args = <<"rustc", "--lib", "--", "-Zno-trans">>

====
